---- MODULE Spec2Model ----
(***************************************************************************)
(* Watermark poller of the Salesforce trigger node                         *)
(* (nodes/CustomSalesforce/v2/triggers/router.ts).                         *)
(*                                                                         *)
(* A trigger node keeps one checkpoint, lastTimeChecked, in its workflow   *)
(* static data.  router() decodes the triggerOn parameter, captures `now`, *)
(* builds the filter for the window [startDate, endDate), awaits the paged *)
(* fetch and then writes the checkpoint and returns, or rethrows.          *)
(* Strings that the code slices are sequences of one-character strings.    *)
(* Timestamps are the integers 1..MaxTime; ISO-8601 strings of one clock   *)
(* are ordered like the instants they denote.                              *)
(***************************************************************************)
EXTENDS Integers, Sequences, FiniteSets, TLC

\* ------------------------------------------------------------------ bounds
MaxTime == 3

Times == 1..MaxTime

\* workflowData.lastTimeChecked before the first successful poll: undefined,
\* which `||` and `!` treat as falsy.
None == 0

\* ------------------------------------------------------------ JS strings
LowerCase == <<"a","b","c","d","e","f","g","h","i","j","k","l","m",
               "n","o","p","q","r","s","t","u","v","w","x","y","z">>

UpperCase == <<"A","B","C","D","E","F","G","H","I","J","K","L","M",
               "N","O","P","Q","R","S","T","U","V","W","X","Y","Z">>

\* String.prototype.toUpperCase on a string of characters.
toUpperCase(s) ==
    [k \in 1..Len(s) |->
        IF \E j \in 1..26 : LowerCase[j] = s[k]
        THEN UpperCase[CHOOSE j \in 1..26 : LowerCase[j] = s[k]]
        ELSE s[k]]

Min(a, b) == IF a < b THEN a ELSE b

Max(a, b) == IF a > b THEN a ELSE b

\* String.prototype.slice(start, end): negative indices count from the end,
\* indices are clamped to [0, length], an empty string when start >= end.
slice(s, start, end) ==
    LET len  == Len(s)
        from == IF start < 0 THEN Max(len + start, 0) ELSE Min(start, len)
        to   == IF end < 0 THEN Max(len + end, 0) ELSE Min(end, len)
    IN  IF from >= to THEN <<>> ELSE SubSeq(s, from + 1, to)

\* slice(start) with the end omitted.
sliceFrom(s, start) == slice(s, start, Len(s))

\* -------------------------------------------------------- node parameters
accountCreated == <<"a","c","c","o","u","n","t","C","r","e","a","t","e","d">>

accountUpdated == <<"a","c","c","o","u","n","t","U","p","d","a","t","e","d">>

customObjectCreated ==
    <<"c","u","s","t","o","m","O","b","j","e","c","t","C","r","e","a","t","e","d">>

customObjectUpdated ==
    <<"c","u","s","t","o","m","O","b","j","e","c","t","U","p","d","a","t","e","d">>

opportunityUpdated ==
    <<"o","p","p","o","r","t","u","n","i","t","y","U","p","d","a","t","e","d">>

\* Values of the triggerOn option list that the model polls with.
TriggerOns ==
    {accountCreated, accountUpdated, customObjectCreated, customObjectUpdated,
     opportunityUpdated}

Account == <<"A","c","c","o","u","n","t">>

CustomObject == <<"C","u","s","t","o","m","O","b","j","e","c","t">>

Created == <<"C","r","e","a","t","e","d">>

Updated == <<"U","p","d","a","t","e","d">>

Opportunity == <<"O","p","p","o","r","t","u","n","i","t","y">>

MyObject == <<"M","y","_","_","c">>

attachmentCreated ==
    <<"a","t","t","a","c","h","m","e","n","t","C","r","e","a","t","e","d">>

attachmentUpdated ==
    <<"a","t","t","a","c","h","m","e","n","t","U","p","d","a","t","e","d">>

caseCreated ==
    <<"c","a","s","e","C","r","e","a","t","e","d">>

caseUpdated ==
    <<"c","a","s","e","U","p","d","a","t","e","d">>

contactCreated ==
    <<"c","o","n","t","a","c","t","C","r","e","a","t","e","d">>

contactUpdated ==
    <<"c","o","n","t","a","c","t","U","p","d","a","t","e","d">>

leadCreated ==
    <<"l","e","a","d","C","r","e","a","t","e","d">>

leadUpdated ==
    <<"l","e","a","d","U","p","d","a","t","e","d">>

opportunityCreated ==
    <<"o","p","p","o","r","t","u","n","i","t","y","C","r","e","a","t","e","d">>

taskCreated ==
    <<"t","a","s","k","C","r","e","a","t","e","d">>

taskUpdated ==
    <<"t","a","s","k","U","p","d","a","t","e","d">>

userCreated ==
    <<"u","s","e","r","C","r","e","a","t","e","d">>

userUpdated ==
    <<"u","s","e","r","U","p","d","a","t","e","d">>

Attachment == <<"A","t","t","a","c","h","m","e","n","t">>

Case == <<"C","a","s","e">>

Contact == <<"C","o","n","t","a","c","t">>

Lead == <<"L","e","a","d">>

Task == <<"T","a","s","k">>

User == <<"U","s","e","r">>

\* The 18 values of the triggerOn option list.
TriggerOnOptions ==
    {accountCreated, accountUpdated, attachmentCreated,
     attachmentUpdated, caseCreated, caseUpdated,
     contactCreated, contactUpdated, customObjectCreated,
     customObjectUpdated, leadCreated, leadUpdated,
     opportunityCreated, opportunityUpdated, taskCreated,
     taskUpdated, userCreated, userUpdated}

\* The resource names that the 18 option values stand for.
ResourceNames ==
    {Account, Attachment, Case, Contact, CustomObject, Lead, Opportunity,
     Task, User}

\* Strings that are no option value: an unknown change kind, a lower-case
\* kind, a kind without a resource, a string shorter than a kind.
accountDeleted == <<"a","c","c","o","u","n","t","D","e","l","e","t","e","d">>

accountcreated == <<"a","c","c","o","u","n","t","c","r","e","a","t","e","d">>

lead == <<"l","e","a","d">>

OtherTriggerOns == {accountDeleted, accountcreated, Created, lead}

\* Values of the customObject parameter: its default '' or an object name.
CustomObjects == {<<>>, MyObject}

\* The sobject types that exist in the Salesforce org.
Sobjects == {Account, Opportunity, MyObject}

\* The trigger nodes of the workflow (each has its own static data), the
\* node that the host polls in Spec, and the invocations of poll.
Nodes == {"A", "B"}

Polled == {"A"}

Procs == {1, 2}

Modes == {"trigger", "manual"}

\* ------------------------------------------------------------- Salesforce
AllRecords ==
    { [sobject |-> o, CreatedDate |-> c, LastModifiedDate |-> m] :
        o \in Sobjects, c \in Times, m \in Times }
    \ { r \in [sobject : Sobjects, CreatedDate : Times, LastModifiedDate : Times] :
        r.LastModifiedDate < r.CreatedDate }

\* The orgs the model runs against: an empty one and one holding a record
\* of every sobject for every pair of dates.
Backends == {{}, AllRecords}

\* Records in the order the paged fetcher hands them over.
Before(r, q) ==
    \/ r.CreatedDate < q.CreatedDate
    \/ r.CreatedDate = q.CreatedDate /\ r.LastModifiedDate < q.LastModifiedDate

RECURSIVE Ordered(_)
Ordered(S) ==
    IF S = {} THEN <<>>
    ELSE LET first == CHOOSE r \in S : \A q \in S \ {r} : Before(r, q)
         IN  <<first>> \o Ordered(S \ {first})

\* One condition of conditionsUi.conditionValues, as the WHERE clause
\* compares it with a record.
Holds(r, cond) ==
    LET v == IF cond.field = "CreatedDate" THEN r.CreatedDate
             ELSE r.LastModifiedDate
    IN  CASE cond.operation = ">=" -> v >= cond.value
          [] cond.operation = ">"  -> v > cond.value
          [] cond.operation = "<=" -> v <= cond.value
          [] OTHER                 -> v < cond.value

\* utils/GenericFunctions.getQuery(options, sobject, returnAll, limit = 0):
\* SELECT id FROM sobject WHERE <conditions joined by AND> [LIMIT limit].
getQuery(options, sobject, returnAll, limit) ==
    [sobject    |-> sobject,
     conditions |-> options.conditionsUi.conditionValues,
     returnAll  |-> returnAll,
     limit      |-> limit]

\* The records a query selects.
Matching(q, org) ==
    { r \in org : /\ r.sobject = q.sobject
                  /\ \A k \in 1..Len(q.conditions) : Holds(r, q.conditions[k]) }

\* utils/GenericFunctions.salesforceApiRequestAllItems('records', 'GET',
\* '/query', {}, qs): every page drained into one array; with LIMIT n the
\* org picks which n of the matching records it returns.
salesforceApiRequestAllItems(q, org) ==
    LET hit == Matching(q, org)
        n   == Min(q.limit, Cardinality(hit))
    IN  IF q.returnAll THEN { Ordered(hit) }
        ELSE { Ordered(S) : S \in { T \in SUBSET hit : Cardinality(T) = n } }

\* ------------------------------------------------------------------- state
VARIABLES
    clock,            \* DateTime.now() of the host
    backend,          \* the records of the Salesforce org
    lastTimeChecked,  \* per node: getWorkflowStaticData('node').lastTimeChecked
    poll,             \* per invocation: the locals of router()
    settled,          \* the most recent poll that finished, and its result
    observed,         \* per node: `now` of its last poll that returned, and
                      \* the checkpoint seen right after it
    hist,             \* per node: the first checkpoint stored and the records
                      \* returned so far (kept in SpecTracked only)
    selector,         \* the parameters triggerOn and customObject of a node
    decoded,          \* what router.ts:16-22 makes of them
    exec,             \* the locals of CustomSalesforceV2.execute and its result
    snake             \* an input of snakeCase and what it returned

vars == <<clock, backend, lastTimeChecked, poll, settled, observed, hist,
          selector, decoded, exec, snake>>

\* The state of the decoding of a selector on its own.
decodeVars == <<selector, decoded>>

\* The state of the polls.
pollVars == <<clock, backend, lastTimeChecked, poll, settled, observed, hist>>

\* ------------------------------------------------------------------ router
\* decodeResource upper-casing the whole prefix.
decodeResourceAllUpper(triggerOn) == toUpperCase(slice(triggerOn, 0, -7))

\* router.ts:17  triggerOn.slice(0, 1).toUpperCase() + triggerOn.slice(1, -7)
decodeResource(triggerOn) ==
    toUpperCase(slice(triggerOn, 0, 1)) \o slice(triggerOn, 1, -7)

\* router.ts:18  triggerOn.slice(-7)
decodeChangeType(triggerOn) == sliceFrom(triggerOn, -7)

\* router.ts:17-22  the resource queried.
resolveResource(triggerOn, customObject) ==
    IF decodeResource(triggerOn) = CustomObject THEN customObject
    ELSE decodeResource(triggerOn)

\* windowStart with the fallback to `now` left out.
windowStartEpoch(checkpoint, now) == checkpoint

\* router.ts:25  (workflowData.lastTimeChecked as string) || now
windowStart(checkpoint, now) == IF checkpoint # None THEN checkpoint ELSE now

\* router.ts:26  const endDate = now
windowEnd(checkpoint, now) == now

Cond(field, operation, value) ==
    [field |-> field, operation |-> operation, value |-> value]

\* conditionValues without the Updated filter's CreatedDate clause.
conditionValuesNoCreatedGuard(mode, changeType, pollStartDate, pollEndDate) ==
    IF mode # "manual"
    THEN IF changeType = Created
         THEN << Cond("CreatedDate", ">=", pollStartDate),
                 Cond("CreatedDate", "<", pollEndDate) >>
         ELSE << Cond("LastModifiedDate", ">=", pollStartDate),
                 Cond("LastModifiedDate", "<", pollEndDate) >>
    ELSE <<>>

\* conditionValues with a Created window that is open at its start.
conditionValuesOpenStart(mode, changeType, pollStartDate, pollEndDate) ==
    IF mode # "manual"
    THEN IF changeType = Created
         THEN << Cond("CreatedDate", ">", pollStartDate),
                 Cond("CreatedDate", "<", pollEndDate) >>
         ELSE << Cond("LastModifiedDate", ">=", pollStartDate),
                 Cond("LastModifiedDate", "<", pollEndDate),
                 Cond("CreatedDate", "<", pollStartDate) >>
    ELSE <<>>

\* conditionValues building a filter for the two known change kinds only.
conditionValuesKnownKinds(mode, changeType, pollStartDate, pollEndDate) ==
    IF mode # "manual"
    THEN IF changeType = Created
         THEN << Cond("CreatedDate", ">=", pollStartDate),
                 Cond("CreatedDate", "<", pollEndDate) >>
         ELSE IF changeType = Updated
              THEN << Cond("LastModifiedDate", ">=", pollStartDate),
                      Cond("LastModifiedDate", "<", pollEndDate),
                      Cond("CreatedDate", "<", pollStartDate) >>
              ELSE <<>>
    ELSE <<>>

\* conditionValues with an Updated window that is open at its start.
conditionValuesUpdatedOpenStart(mode, changeType, pollStartDate, pollEndDate) ==
    IF mode # "manual"
    THEN IF changeType = Created
         THEN << Cond("CreatedDate", ">=", pollStartDate),
                 Cond("CreatedDate", "<", pollEndDate) >>
         ELSE << Cond("LastModifiedDate", ">", pollStartDate),
                 Cond("LastModifiedDate", "<", pollEndDate),
                 Cond("CreatedDate", "<", pollStartDate) >>
    ELSE <<>>

\* conditionValues with a closed Created window.
conditionValuesClosed(mode, changeType, pollStartDate, pollEndDate) ==
    IF mode # "manual"
    THEN IF changeType = Created
         THEN << Cond("CreatedDate", ">=", pollStartDate),
                 Cond("CreatedDate", "<=", pollEndDate) >>
         ELSE << Cond("LastModifiedDate", ">=", pollStartDate),
                 Cond("LastModifiedDate", "<", pollEndDate),
                 Cond("CreatedDate", "<", pollStartDate) >>
    ELSE <<>>

\* conditionValues with the Updated filter's CreatedDate clause bounded by
\* the end of the window.
conditionValuesCreatedBeforeEnd(mode, changeType, pollStartDate, pollEndDate) ==
    IF mode # "manual"
    THEN IF changeType = Created
         THEN << Cond("CreatedDate", ">=", pollStartDate),
                 Cond("CreatedDate", "<", pollEndDate) >>
         ELSE << Cond("LastModifiedDate", ">=", pollStartDate),
                 Cond("LastModifiedDate", "<", pollEndDate),
                 Cond("CreatedDate", "<", pollEndDate) >>
    ELSE <<>>

\* router.ts:31-66  options.conditionsUi.conditionValues
conditionValues(mode, changeType, pollStartDate, pollEndDate) ==
    IF mode # "manual"
    THEN IF changeType = Created
         THEN << Cond("CreatedDate", ">=", pollStartDate),
                 Cond("CreatedDate", "<", pollEndDate) >>
         ELSE << Cond("LastModifiedDate", ">=", pollStartDate),
                 Cond("LastModifiedDate", "<", pollEndDate),
                 Cond("CreatedDate", "<", pollStartDate) >>
    ELSE <<>>

\* buildQuery with the manual branch left out.
buildQueryAll(mode, options, triggerResource) ==
    getQuery(options, triggerResource, TRUE, 0)

\* router.ts:69-73  qs.q
buildQuery(mode, options, triggerResource) ==
    IF mode = "manual"
    THEN getQuery(options, triggerResource, FALSE, 1)
    ELSE getQuery(options, triggerResource, TRUE, 0)

\* helpers.returnJsonArray: one item {json: record} per record, in order.
returnJsonArray(responseData) ==
    [k \in 1..Len(responseData) |-> [json |-> responseData[k]]]

\* onSuccess without the write of router.ts:87 on the empty path.
onSuccessSkipsEmpty(f, responseData) ==
    [lastTimeChecked |-> IF Len(responseData) = 0 THEN f.previousCheckpoint
                         ELSE f.endDate,
     kind  |-> IF Len(responseData) = 0 THEN "null" ELSE "batch",
     value |-> IF Len(responseData) = 0 THEN <<>>
               ELSE << returnJsonArray(responseData) >>]

\* onSuccess writing the start of the window.
onSuccessWritesStart(f, responseData) ==
    [lastTimeChecked |-> f.startDate,
     kind  |-> IF Len(responseData) = 0 THEN "null" ELSE "batch",
     value |-> IF Len(responseData) = 0 THEN <<>>
               ELSE << returnJsonArray(responseData) >>]

\* onSuccess reading the clock again when it writes.
onSuccessAtCompletion(f, responseData) ==
    [lastTimeChecked |-> clock,
     kind  |-> IF Len(responseData) = 0 THEN "null" ELSE "batch",
     value |-> IF Len(responseData) = 0 THEN <<>>
               ELSE << returnJsonArray(responseData) >>]

\* onSuccess returning one output per record.
onSuccessOnePerRecord(f, responseData) ==
    [lastTimeChecked |-> f.endDate,
     kind  |-> IF Len(responseData) = 0 THEN "null" ELSE "batch",
     value |-> [k \in 1..Len(responseData) |-> << [json |-> responseData[k]] >>]]

\* router.ts:86-89, 108-114  what a poll whose fetch succeeded writes and
\* returns: the checkpoint, and null or one output holding every record.
onSuccess(f, responseData) ==
    [lastTimeChecked |-> f.endDate,
     kind  |-> IF Len(responseData) = 0 THEN "null" ELSE "batch",
     value |-> IF Len(responseData) = 0 THEN <<>>
               ELSE << returnJsonArray(responseData) >>]

\* What the query builder or the paged fetch throws.
CollaboratorError == [name |-> "Error", node |-> "", parameters |-> <<>>, cause |-> ""]

NoError == [name |-> "", node |-> "", parameters |-> <<>>, cause |-> ""]

\* this.getNode(): the node of the poll, with its parameters.
getNode(f) == [name |-> f.node, parameters |-> <<f.triggerOn, f.customObject>>]

\* new NodeApiError(node, error)
NodeApiError(node, error) ==
    [name |-> "NodeApiError", node |-> node.name,
     parameters |-> node.parameters, cause |-> error.name]

\* onError rethrowing what the collaborator threw, without router.ts:83.
onErrorRaw(f, checkpoint) ==
    [lastTimeChecked |-> checkpoint,
     kind   |-> "throw",
     value  |-> <<>>,
     error  |-> CollaboratorError,
     logged |-> ~(f.mode = "manual" \/ checkpoint = None)]

\* onError dropping the checkpoint.
onErrorClears(f, checkpoint) ==
    [lastTimeChecked |-> None,
     kind   |-> "throw",
     value  |-> <<>>,
     error  |-> NodeApiError(getNode(f), CollaboratorError),
     logged |-> ~(f.mode = "manual" \/ checkpoint = None)]

\* onError advancing the checkpoint to the end of the failed window.
onErrorAdvances(f, checkpoint) ==
    [lastTimeChecked |-> f.endDate,
     kind   |-> "throw",
     value  |-> <<>>,
     error  |-> NodeApiError(getNode(f), CollaboratorError),
     logged |-> ~(f.mode = "manual" \/ checkpoint = None)]

\* onError storing the start of the failed window.
onErrorWatermarks(f, checkpoint) ==
    [lastTimeChecked |-> f.startDate,
     kind   |-> "throw",
     value  |-> <<>>,
     error  |-> NodeApiError(getNode(f), CollaboratorError),
     logged |-> ~(f.mode = "manual" \/ checkpoint = None)]

\* onError logging and returning null instead of rethrowing.
onErrorSwallows(f, checkpoint) ==
    [lastTimeChecked |-> checkpoint,
     kind   |-> IF f.mode = "manual" \/ checkpoint = None THEN "throw" ELSE "null",
     value  |-> <<>>,
     error  |-> NodeApiError(getNode(f), CollaboratorError),
     logged |-> ~(f.mode = "manual" \/ checkpoint = None)]

\* router.ts:82-84, 90-107  what a poll whose fetch failed writes and
\* returns: the NodeApiError is rethrown on both paths of the outer catch,
\* after Logger.error when the run is not manual and a checkpoint exists.
onError(f, checkpoint) ==
    [lastTimeChecked |-> checkpoint,
     kind   |-> "throw",
     value  |-> <<>>,
     error  |-> NodeApiError(getNode(f), CollaboratorError),
     logged |-> ~(f.mode = "manual" \/ checkpoint = None)]

\* The locals of an invocation that is not running.
Idle ==
    [pc |-> "idle", node |-> "", mode |-> "", triggerOn |-> <<>>,
     customObject |-> <<>>,
     triggerResource |-> <<>>, changeType |-> <<>>,
     previousCheckpoint |-> None, now |-> None, startDate |-> None,
     endDate |-> None, qs |-> getQuery([conditionsUi |-> [conditionValues |-> <<>>]], <<>>, FALSE, 0)]

NotSettled ==
    [pc |-> "idle", node |-> "", mode |-> "", triggerOn |-> <<>>,
     customObject |-> <<>>,
     triggerResource |-> <<>>, changeType |-> <<>>,
     previousCheckpoint |-> None, now |-> None, startDate |-> None,
     endDate |-> None, qs |-> Idle.qs,
     fetch |-> "none", responseData |-> <<>>, kind |-> "none", value |-> <<>>,
     error |-> NoError, logged |-> FALSE, settledAt |-> None]

\* Nothing stored and nothing returned yet.
NoHistory ==
    [first |-> None, reported |-> {}, byTrigger |-> {}, manualAdvanced |-> FALSE,
     windows |-> {}]

\* ------------------------------------------- CustomSalesforceV2.execute
\* The most input items of one execution.
MaxItems == 3

\* A value of responseData: its kind and, for an object, the object as the
\* only element of value; for an array, its elements.
\* `let responseData;`
Undefined == [kind |-> "undefined", value |-> <<>>]

\* What a Salesforce request answers: one object, a list of objects, or
\* nothing (a 204).
Created201 == [id |-> "001", success |-> TRUE, errors |-> <<>>]

Responses ==
    { Undefined,
      [kind |-> "object", value |-> << Created201 >>],
      [kind |-> "array", value |-> <<>>],
      [kind |-> "array", value |-> << [Id |-> "001"], [Id |-> "002"] >>] }

\* The messages of the errors thrown while an item is processed.
Messages == {"Bad Request", "The property data does not exist"}

\* What Salesforce or the resolution of a parameter fails with.
RequestMessages == {"Bad Request"}

\* What the processing of one item comes to once its request is built: a
\* response, or an error thrown by the request or, before it, by the
\* resolution of a parameter.
ItemOutcomes ==
    { [kind |-> "response", requested |-> TRUE, responseData |-> r, message |-> ""] :
        r \in Responses }
    \cup { [kind |-> "error", requested |-> b, responseData |-> Undefined,
            message |-> m] : b \in BOOLEAN, m \in RequestMessages }

\* The outcomes in the runs that look at the request: an object or an error
\* of the request.
RequestOutcomes ==
    { o \in ItemOutcomes :
        /\ o.requested
        /\ o.kind = "response" => o.responseData.kind = "object" }

NoOutput == [returned |-> FALSE, value |-> <<>>]

\* part_002:98-161  the values of the Resource list; the default is lead.
Resources ==
    {"account", "attachment", "case", "contact", "customObject", "document",
     "flow", "lead", "opportunity", "search", "task", "user"}

Operations ==
    {"create", "upsert", "update", "get", "getAll", "delete", "getSummary",
     "addNote", "query"}

\* Branches with create and get for every resource of the list.
BranchesForAll(resource) == {"create", "get"}

\* part_002:1048-1838  the operations that the loop has a branch for.
Branches(resource) ==
    CASE resource = "customObject" ->
             {"create", "upsert", "update", "get", "getAll", "delete"}
      [] resource \in {"opportunity", "account"} ->
             {"create", "upsert", "update", "get", "getAll", "delete",
              "getSummary", "addNote"}
      [] resource = "attachment" ->
             {"create", "update", "get", "getAll", "delete", "getSummary"}
      [] resource = "user" -> {"get", "getAll"}
      [] resource = "search" -> {"query"}
      [] OTHER -> {}

HasBranch(resource, operation) == operation \in Branches(resource)

\* A JavaScript undefined as the value of a field.
UndefinedValue == "undefined"

\* A request body: a function from its keys to their values.
EmptyBody == [k \in {} |-> ""]

\* body[key] = value
Put(body, key, value) ==
    [k \in DOMAIN body \cup {key} |-> IF k = key THEN value ELSE body[k]]

\* Object.assign(body, fields): body[fieldId] = value for every field.
PutAll(body, fields) ==
    [k \in DOMAIN body \cup DOMAIN fields |->
        IF k \in DOMAIN fields THEN fields[k] ELSE body[k]]

\* delete body[key]
Delete(body, key) == [k \in DOMAIN body \ {key} |-> body[k]]

\* The body as JSON on the wire: keys whose value is undefined are left out.
toJSON(body) ==
    [k \in { j \in DOMAIN body : body[j] # UndefinedValue } |-> body[k]]

\* The values of the parameters externalId and externalIdValue.
ExternalIds == {"Ext__c", "Name"}

ExternalIdValues == {"x1", "x2"}

\* The customFieldsValues of an item: none, the external-id field with a
\* value and with undefined, and two fields.
CustomFieldSets ==
    { EmptyBody,
      Put(EmptyBody, "Ext__c", "v"),
      Put(EmptyBody, "Ext__c", UndefinedValue),
      Put(Put(EmptyBody, "Ext__c", "v"), "Name", "w") }

\* The parameters of an item and its binary data: whether the item has
\* binary data under binaryPropertyName, and whether the update fields
\* name a binary property.
DefaultItem ==
    [externalId |-> "Ext__c", externalIdValue |-> "x1", customFields |-> EmptyBody,
     binaryPropertyName |-> "data", hasBinary |-> TRUE, updateBinary |-> FALSE]

DefaultItems == {DefaultItem}

UpsertItems ==
    { [DefaultItem EXCEPT !.externalId = x, !.externalIdValue = v,
                          !.customFields = f] :
        x \in ExternalIds, v \in ExternalIdValues, f \in CustomFieldSets }

AttachmentItems ==
    { [DefaultItem EXCEPT !.hasBinary = b, !.updateBinary = u] :
        b \in BOOLEAN, u \in BOOLEAN }

\* The value of the parameters recordId, opportunityId, accountId,
\* attachmentId and userId, and of the parameter customObject.
RecordId == "001"

CustomObjectName == "MyObject__c"

\* The name of the sobject in the endpoints of a resource.
sobjectOf(resource) ==
    IF resource = "customObject" THEN CustomObjectName ELSE resource

\* No item index: the error carries none.
NoIndex == -1

NoPlan ==
    [kind |-> "none", method |-> "", endpoint |-> <<>>, body |-> EmptyBody,
     message |-> "", itemIndex |-> NoIndex]

\* salesforceApiRequest.call(this, method, endpoint, body)
Request(method, endpoint, body) ==
    [kind |-> "request", method |-> method, endpoint |-> endpoint,
     body |-> body, message |-> "", itemIndex |-> NoIndex]

\* throw new NodeOperationError(this.getNode(), message, {itemIndex: i})
Throw(message, i) ==
    [kind |-> "throw", method |-> "", endpoint |-> <<>>, body |-> EmptyBody,
     message |-> message, itemIndex |-> i]

\* part_002:1053-1064, 1164-1210, 1370-1459  the body of create and upsert:
\* the required fields of the resource and the custom fields over them.
createBody(resource, P) ==
    LET required ==
            CASE resource = "opportunity" ->
                     Put(Put(Put(EmptyBody, "Name", "n"), "CloseDate", "d"),
                         "StageName", "s")
              [] resource = "account" -> Put(EmptyBody, "Name", "n")
              [] OTHER -> EmptyBody
    IN  PutAll(required, P.customFields)

\* The upsert leaving the body as it was assembled.
upsertBodyKept(body, externalId) == body

\* part_002:1072-1074, 1218-1220, 1467-1469
\*   if (body[externalId] !== undefined) delete body[externalId]
upsertBody(body, externalId) ==
    IF externalId \in DOMAIN body /\ body[externalId] # UndefinedValue
    THEN Delete(body, externalId)
    ELSE body

\* part_002:1069, 1215, 1464  this.getNodeParameter('externalId', 0)
upsertExternalId(P, externalId0) == externalId0

\* part_002:1049-1077, 1159-1223, 1367-1472  create and upsert.
createOrUpsert(resource, operation, P, externalId0) ==
    LET body       == createBody(resource, P)
        externalId == upsertExternalId(P, externalId0)
    IN  IF operation = "upsert"
        THEN Request("PATCH",
                     << "sobjects", sobjectOf(resource), externalId,
                        P.externalIdValue >>,
                     upsertBody(body, externalId))
        ELSE Request("POST", << "sobjects", sobjectOf(resource) >>, body)

\* The binary data of an item.
BinaryData == [data |-> "base64", mimeType |-> "text/plain"]

\* `The property ${binaryPropertyName} does not exist`
PropertyDoesNotExist(binaryPropertyName) ==
    IF binaryPropertyName = "data" THEN "The property data does not exist"
    ELSE "The property does not exist"

\* The attachment create sending the request without the binary data.
attachmentCreateLenient(P, i) ==
    LET body == Put(Put(EmptyBody, "Name", "n"), "ParentId", "p")
    IN  IF P.hasBinary
        THEN Request("POST", << "sobjects", "attachment" >>,
                     Put(Put(body, "Body", BinaryData.data),
                         "ContentType", BinaryData.mimeType))
        ELSE Request("POST", << "sobjects", "attachment" >>, body)

\* part_002:1655-1689  attachment create.
attachmentCreate(P, i) ==
    LET body == Put(Put(EmptyBody, "Name", "n"), "ParentId", "p")
    IN  IF P.hasBinary
        THEN Request("POST", << "sobjects", "attachment" >>,
                     Put(Put(body, "Body", BinaryData.data),
                         "ContentType", BinaryData.mimeType))
        ELSE Throw(PropertyDoesNotExist(P.binaryPropertyName), i)

\* part_002:1691-1726  attachment update.
attachmentUpdate(P, i) ==
    IF P.updateBinary
    THEN IF P.hasBinary
         THEN Request("PATCH", << "sobjects", "attachment", RecordId >>,
                      Put(Put(EmptyBody, "Body", BinaryData.data),
                          "ContentType", BinaryData.mimeType))
         ELSE Throw(PropertyDoesNotExist(P.binaryPropertyName), i)
    ELSE Request("PATCH", << "sobjects", "attachment", RecordId >>, EmptyBody)

\* part_002:1048-1838  what the try block does for an item before it
\* awaits: nothing, a throw, or a request.
plan(resource, operation, P, externalId0, i) ==
    IF ~HasBranch(resource, operation) THEN NoPlan
    ELSE IF operation \in {"create", "upsert"} /\ resource # "attachment"
         THEN createOrUpsert(resource, operation, P, externalId0)
    ELSE IF operation = "create" THEN attachmentCreate(P, i)
    ELSE IF operation = "update" /\ resource = "attachment"
         THEN attachmentUpdate(P, i)
    ELSE IF operation = "update"
         THEN Request("PATCH", << "sobjects", sobjectOf(resource), RecordId >>,
                      PutAll(EmptyBody, P.customFields))
    ELSE IF operation = "get"
         THEN Request("GET", << "sobjects", sobjectOf(resource), RecordId >>,
                      EmptyBody)
    ELSE IF operation = "delete"
         THEN Request("DELETE", << "sobjects", sobjectOf(resource), RecordId >>,
                      EmptyBody)
    ELSE IF operation = "getSummary"
         THEN Request("GET", << "sobjects", sobjectOf(resource) >>, EmptyBody)
    ELSE IF operation = "addNote"
         THEN Request("POST", << "sobjects", "note" >>,
                      Put(Put(EmptyBody, "Title", "t"), "ParentId", RecordId))
    ELSE Request("GET", << "query" >>, EmptyBody)

\* No request was issued for the item.
NoRequest ==
    [issued |-> FALSE, item |-> 0, method |-> "", endpoint |-> <<>>,
     body |-> EmptyBody, sent |-> EmptyBody]

\* The request issued for item i.
Issued(i, pl) ==
    [issued |-> TRUE, item |-> i, method |-> pl.method, endpoint |-> pl.endpoint,
     body |-> pl.body, sent |-> toJSON(pl.body)]

\* execute has not been called.
NotExecuting ==
    [pc |-> "idle", length |-> 0, continueOnFail |-> FALSE, handled |-> FALSE,
     resource |-> "", operation |-> "", externalId0 |-> "",
     i |-> 0, returnData |-> <<>>, responseData |-> Undefined, requests |-> {},
     order |-> <<>>, item |-> DefaultItem, request |-> NoRequest,
     assigned |-> Undefined,
     outcome |-> "none", error |-> "", errorName |-> "",
     errorItemIndex |-> NoIndex, thrown |-> "",
     output |-> NoOutput]

\* helpers.returnJsonArray of an object or of a list of objects.
returnJsonArrayOf(data) ==
    IF data.kind = "array"
    THEN [k \in 1..Len(data.value) |-> [json |-> data.value[k]]]
    ELSE << [json |-> data.value[1]] >>

\* helpers.constructExecutionMetaData(inputData, {itemData})
constructExecutionMetaData(inputData, itemData) ==
    [k \in 1..Len(inputData) |->
        [json |-> inputData[k].json, pairedItem |-> itemData]]

\* The default response put in place of an empty list as well.
defaultResponseForEmpty(responseData) ==
    IF responseData.kind = "undefined" \/ responseData.value = <<>>
    THEN [kind |-> "object", value |-> << [errors |-> <<>>, success |-> TRUE] >>]
    ELSE responseData

\* part_002:1839-1846  the Salesforce default response.
defaultResponse(responseData) ==
    IF responseData.kind = "undefined"
    THEN [kind |-> "object", value |-> << [errors |-> <<>>, success |-> TRUE] >>]
    ELSE responseData

\* onItemSuccess pairing every entry with item 0.
onItemSuccessPairedWithFirst(e, assigned, requested) ==
    LET responseData  == defaultResponse(assigned)
        executionData == constructExecutionMetaData(
                             returnJsonArrayOf(responseData), [item |-> 0])
    IN  [e EXCEPT !.responseData = responseData,
                  !.returnData = e.returnData \o executionData,
                  !.requests = IF requested THEN @ \cup {e.i} ELSE @,
                  !.outcome = "ok",
                  !.error = "",
                  !.i = e.i + 1]

\* part_002:1839-1853  item e.i went through the try block.
onItemSuccess(e, assigned, requested) ==
    LET responseData  == defaultResponse(assigned)
        executionData == constructExecutionMetaData(
                             returnJsonArrayOf(responseData), [item |-> e.i])
    IN  [e EXCEPT !.responseData = responseData,
                  !.returnData = e.returnData \o executionData,
                  !.requests = IF requested THEN @ \cup {e.i} ELSE @,
                  !.outcome = "ok",
                  !.error = "",
                  !.i = e.i + 1]

\* The catch block throwing whatever continueOnFail() says.
onItemErrorAborts(e, message, requested) ==
    [e EXCEPT !.requests = IF requested THEN @ \cup {e.i} ELSE @,
              !.outcome = "failed",
              !.error = message,
              !.pc = "thrown",
              !.thrown = message]

\* part_002:1854-1864  the catch block, for the error thrown for item e.i.
onItemError(e, message, requested) ==
    IF e.continueOnFail
    THEN LET executionErrorData == constructExecutionMetaData(
                 returnJsonArrayOf([kind |-> "object",
                                    value |-> << [error |-> message] >>]),
                 [item |-> e.i])
         IN  [e EXCEPT !.returnData = e.returnData \o executionErrorData,
                       !.requests = IF requested THEN @ \cup {e.i} ELSE @,
                       !.outcome = "failed",
                       !.error = message,
                       !.i = e.i + 1]
    ELSE [e EXCEPT !.requests = IF requested THEN @ \cup {e.i} ELSE @,
                   !.outcome = "failed",
                   !.error = message,
                   !.pc = "thrown",
                   !.thrown = message]

\* ------------------------------------------------- snakeCase (part_000)
\* The longest input of snakeCase.
MaxLen == 4

\* The character that SPLIT_REPLACE_VALUE puts between two words.
NUL == "NUL"

Digits == {"0","1","2","3","4","5","6","7","8","9"}

\* \p{Ll}, \p{Lu}, \d and \p{L} on the characters of the model.
IsLower(ch) == \E j \in 1..26 : LowerCase[j] = ch

IsUpper(ch) == \E j \in 1..26 : UpperCase[j] = ch

IsDigit(ch) == ch \in Digits

IsLetter(ch) == IsLower(ch) \/ IsUpper(ch)

\* What String.prototype.trim removes.
IsSpace(ch) == ch = " "

\* The characters of the inputs: letters of both cases, a digit, a blank
\* and two separators.
Chars == {"a", "A", "B", "1", " ", "_"}

Inputs == UNION { [1..n -> Chars] : n \in 0..MaxLen }

\* String.prototype.toLowerCase
toLowerCase(s) ==
    [k \in 1..Len(s) |->
        IF IsUpper(s[k])
        THEN LowerCase[CHOOSE j \in 1..26 : UpperCase[j] = s[k]]
        ELSE s[k]]

\* String.prototype.trim
RECURSIVE trimStart(_)
trimStart(s) ==
    IF s # <<>> /\ IsSpace(Head(s)) THEN trimStart(Tail(s)) ELSE s

RECURSIVE trimEnd(_)
trimEnd(s) ==
    IF s # <<>> /\ IsSpace(s[Len(s)])
    THEN trimEnd(SubSeq(s, 1, Len(s) - 1)) ELSE s

trim(s) == trimEnd(trimStart(s))

\* replace(SPLIT_LOWER_UPPER_RE, '$1\0$2'): the matches are taken from left
\* to right and do not overlap.
RECURSIVE replaceLowerUpper(_)
replaceLowerUpper(s) ==
    IF s = <<>> THEN <<>>
    ELSE IF /\ Len(s) >= 2
            /\ IsLower(s[1]) \/ IsDigit(s[1])
            /\ IsUpper(s[2])
         THEN << s[1], NUL, s[2] >> \o replaceLowerUpper(SubSeq(s, 3, Len(s)))
         ELSE << s[1] >> \o replaceLowerUpper(Tail(s))

\* replace(SPLIT_UPPER_UPPER_RE, '$1\0$2')
RECURSIVE replaceUpperUpper(_)
replaceUpperUpper(s) ==
    IF s = <<>> THEN <<>>
    ELSE IF /\ Len(s) >= 3
            /\ IsUpper(s[1])
            /\ IsUpper(s[2])
            /\ IsLower(s[3])
         THEN << s[1], NUL, s[2], s[3] >>
                  \o replaceUpperUpper(SubSeq(s, 4, Len(s)))
         ELSE << s[1] >> \o replaceUpperUpper(Tail(s))

\* The length of the run of stripped characters that s starts with.
RECURSIVE stripRun(_)
stripRun(s) ==
    IF s # <<>> /\ ~(IsLetter(Head(s)) \/ IsDigit(Head(s)))
    THEN 1 + stripRun(Tail(s)) ELSE 0

\* The strip putting one \0 for every stripped character.
RECURSIVE replaceStripEach(_)
replaceStripEach(s) ==
    IF s = <<>> THEN <<>>
    ELSE IF stripRun(s) > 0
         THEN << NUL >> \o replaceStripEach(Tail(s))
         ELSE << s[1] >> \o replaceStripEach(Tail(s))

\* replace(DEFAULT_STRIP_REGEXP, '\0'): one \0 for every run of characters
\* that are neither letters nor digits.
RECURSIVE replaceStrip(_)
replaceStrip(s) ==
    IF s = <<>> THEN <<>>
    ELSE IF stripRun(s) > 0
         THEN << NUL >> \o replaceStrip(SubSeq(s, stripRun(s) + 1, Len(s)))
         ELSE << s[1] >> \o replaceStrip(Tail(s))

\* String.prototype.split(/\0/g): the pieces between the \0, empty ones
\* included.
RECURSIVE splitNUL(_, _)
splitNUL(s, word) ==
    IF s = <<>> THEN << word >>
    ELSE IF Head(s) = NUL
         THEN << word >> \o splitNUL(Tail(s), <<>>)
         ELSE splitNUL(Tail(s), Append(word, Head(s)))

\* part_000:46  while (result.charAt(start) === '\0') start++
RECURSIVE skipStart(_, _)
skipStart(result, start) ==
    IF start < Len(result) /\ result[start + 1] = NUL
    THEN skipStart(result, start + 1) ELSE start

\* part_000:48  while (result.charAt(end - 1) === '\0') end--
RECURSIVE skipEnd(_, _)
skipEnd(result, end) ==
    IF end >= 1 /\ result[end] = NUL THEN skipEnd(result, end - 1) ELSE end

\* part_000:33-51
split(value) ==
    LET result == replaceStrip(replaceUpperUpper(replaceLowerUpper(trim(value))))
        start  == skipStart(result, 0)
        end    == Len(result)
    IN  IF start = end THEN <<>>
        ELSE splitNUL(slice(result, start, skipEnd(result, end)), <<>>)

\* part_000:53-78 with the default prefix and suffix characters (''): no
\* character of the input is in '', so the prefix and the suffix are empty
\* and the whole input is split.
splitPrefixSuffix(input) ==
    [prefix |-> slice(input, 0, 0), words |-> split(input),
     suffix |-> sliceFrom(input, Len(input))]

\* Array.prototype.join
RECURSIVE join(_, _)
join(words, delimiter) ==
    IF words = <<>> THEN <<>>
    ELSE IF Len(words) = 1 THEN words[1]
         ELSE words[1] \o delimiter \o join(Tail(words), delimiter)

\* part_000:83-86
noCase(input, delimiter) ==
    LET p == splitPrefixSuffix(input)
    IN  p.prefix
          \o join([k \in 1..Len(p.words) |-> toLowerCase(p.words[k])], delimiter)
          \o p.suffix

\* part_000:97-99
snakeCase(input) == noCase(input, << "_" >>)

\* snakeCase has not been called.
NotConverted == [done |-> FALSE, input |-> <<>>, words |-> <<>>, result |-> <<>>]

\* No selector has been decoded on its own.
NotDecoded ==
    [done |-> FALSE, decodedResource |-> <<>>, triggerResource |-> <<>>,
     changeType |-> <<>>]

InitPolls ==
    /\ clock = 1
    /\ lastTimeChecked = [i \in Nodes |-> None]
    /\ poll = [p \in Procs |-> Idle]
    /\ settled = NotSettled
    /\ observed = [i \in Nodes |-> [now |-> None, checkpoint |-> None]]
    /\ hist = [i \in Nodes |-> NoHistory]
    /\ exec = NotExecuting
    /\ snake = NotConverted

Init ==
    /\ InitPolls
    /\ backend \in Backends
    /\ selector = [triggerOn |-> <<>>, customObject |-> <<>>]
    /\ decoded = NotDecoded

\* The host's clock advances.
Tick ==
    /\ clock < MaxTime
    /\ clock' = clock + 1
    /\ UNCHANGED <<backend, lastTimeChecked, poll, settled, observed, hist>>
    /\ UNCHANGED <<decodeVars, exec, snake>>

\* The host runs at most one poll of a trigger node at a time.
HostSerial(i) == \A q \in Procs : poll[q].pc = "fetching" => poll[q].node # i

\* router.ts:13-74  from the call to the await of the paged fetch.
Begin(p, i, m, triggerOn, customObject) ==
    LET now       == clock
        startDate == windowStart(lastTimeChecked[i], now)
        endDate   == windowEnd(lastTimeChecked[i], now)
        resource  == resolveResource(triggerOn, customObject)
        options   == [conditionsUi |-> [conditionValues |->
                        conditionValues(m, decodeChangeType(triggerOn),
                                        startDate, endDate)]]
    IN  /\ poll[p].pc = "idle"
        /\ poll' = [poll EXCEPT ![p] =
              [pc |-> "fetching", node |-> i, mode |-> m,
               triggerOn |-> triggerOn,
               customObject |-> IF decodeResource(triggerOn) = CustomObject
                                THEN customObject ELSE <<>>,
               triggerResource |-> resource,
               changeType |-> decodeChangeType(triggerOn),
               previousCheckpoint |-> lastTimeChecked[i],
               now |-> now, startDate |-> startDate, endDate |-> endDate,
               qs |-> buildQuery(m, options, resource)]]
        /\ UNCHANGED <<clock, backend, lastTimeChecked, settled, observed, hist>>
        /\ UNCHANGED <<decodeVars, exec, snake>>

\* Invocations are interchangeable: a poll takes the first free one.
FirstFree(p) == \A q \in Procs : q < p => poll[q].pc # "idle"

PollStart(p) ==
    \E i \in Polled, m \in Modes, t \in TriggerOns, c \in CustomObjects :
        /\ HostSerial(i)
        /\ FirstFree(p)
        /\ Begin(p, i, m, t, c)

\* The result of a finished poll, as the host receives it: what the fetch
\* did, what router() returned or threw, and when.
Settle(f, fetch, responseData, r) ==
    [pc |-> "done", node |-> f.node, mode |-> f.mode, triggerOn |-> f.triggerOn,
     customObject |-> f.customObject,
     triggerResource |-> f.triggerResource, changeType |-> f.changeType,
     previousCheckpoint |-> f.previousCheckpoint, now |-> f.now,
     startDate |-> f.startDate, endDate |-> f.endDate, qs |-> f.qs,
     fetch |-> fetch, responseData |-> responseData,
     kind |-> r.kind, value |-> r.value,
     error |-> IF fetch = "failed" THEN r.error ELSE NoError,
     logged |-> IF fetch = "failed" THEN r.logged ELSE FALSE,
     settledAt |-> clock]

\* The write keeping the later of the stored and the new checkpoint.
storeLastTimeCheckedMax(staticData, i, value) ==
    [staticData EXCEPT ![i] = Max(@, value)]

\* The write with static data shared by the workflow's nodes
\* (getWorkflowStaticData('global')).
storeLastTimeCheckedGlobal(staticData, i, value) ==
    [j \in DOMAIN staticData |-> value]

\* workflowData.lastTimeChecked = value, on the static data of node i
\* (getWorkflowStaticData('node')).
storeLastTimeChecked(staticData, i, value) == [staticData EXCEPT ![i] = value]

\* router.ts:74-89, 108-114  the paged fetch answers.
Return(p, responseData) ==
    LET r == onSuccess(poll[p], responseData)
    IN  /\ poll[p].pc = "fetching"
        /\ poll[p].qs.sobject \in Sobjects
        /\ lastTimeChecked' =
              storeLastTimeChecked(lastTimeChecked, poll[p].node, r.lastTimeChecked)
        /\ settled' = Settle(poll[p], "ok", responseData, r)
        /\ observed' = [observed EXCEPT ![poll[p].node] =
              [now |-> poll[p].now, checkpoint |-> r.lastTimeChecked]]
        /\ poll' = [poll EXCEPT ![p] = Idle]
        /\ UNCHANGED <<clock, backend>>
        /\ UNCHANGED <<decodeVars, exec, snake>>

FetchReturn(p) ==
    /\ poll[p].pc = "fetching"
    /\ \E responseData \in salesforceApiRequestAllItems(poll[p].qs, backend) :
          Return(p, responseData)
    /\ UNCHANGED hist

\* router.ts:82-84, 90-107  the query builder or the paged fetch throws.
FetchFail(p) ==
    /\ poll[p].pc = "fetching"
    /\ LET r == onError(poll[p], lastTimeChecked[poll[p].node])
       IN  /\ lastTimeChecked' =
                 [lastTimeChecked EXCEPT ![poll[p].node] = r.lastTimeChecked]
           /\ settled' = Settle(poll[p], "failed", <<>>, r)
    /\ poll' = [poll EXCEPT ![p] = Idle]
    /\ UNCHANGED <<clock, backend, observed, hist>>
    /\ UNCHANGED <<decodeVars, exec, snake>>

Next ==
    \/ Tick
    \/ \E p \in Procs : PollStart(p)
    \/ \E p \in Procs : FetchReturn(p)
    \/ \E p \in Procs : FetchFail(p)

Spec == Init /\ [][Next]_vars

\* ------------------------------------- one Created trigger, with history
\* The selectors of a Created trigger: a standard and a custom object.
CreatedSelectors ==
    { [triggerOn |-> accountCreated, customObject |-> <<>>],
      [triggerOn |-> customObjectCreated, customObject |-> MyObject] }

\* Orgs for the Created triggers, which look at CreatedDate only: an empty
\* one and one whose records were not modified after their creation.
CreatedRecords == { r \in AllRecords : r.LastModifiedDate = r.CreatedDate }

CreatedBackends == {{}, CreatedRecords}

InitTracked ==
    /\ InitPolls
    /\ backend \in CreatedBackends
    /\ selector \in CreatedSelectors
    /\ decoded = NotDecoded

\* A poll of the node, whose parameters do not change between polls.
PollStartTracked(p) ==
    \E i \in Polled, m \in Modes :
        /\ HostSerial(i)
        /\ FirstFree(p)
        /\ Begin(p, i, m, selector.triggerOn, selector.customObject)

\* The history of a node after a poll of it returned: the first checkpoint
\* ever stored, the records returned so far, those returned to trigger-mode
\* polls, whether a manual poll moved a checkpoint that was stored, and the
\* windows of the trigger-mode polls.
Track(h, f, r) ==
    LET batch == IF r.kind = "batch"
                 THEN { r.value[1][k].json : k \in 1..Len(r.value[1]) }
                 ELSE {}
    IN  [first |-> IF h.first = None THEN r.lastTimeChecked ELSE h.first,
         reported |-> h.reported \cup batch,
         byTrigger |-> IF f.mode = "trigger" THEN h.byTrigger \cup batch
                       ELSE h.byTrigger,
         manualAdvanced |-> \/ h.manualAdvanced
                            \/ f.mode = "manual" /\ f.previousCheckpoint # None,
         windows |-> IF f.mode = "trigger"
                     THEN h.windows \cup {[start |-> f.startDate, end |-> f.endDate]}
                     ELSE h.windows]

FetchReturnTracked(p) ==
    /\ poll[p].pc = "fetching"
    /\ \E responseData \in salesforceApiRequestAllItems(poll[p].qs, backend) :
          /\ Return(p, responseData)
          /\ hist' = [hist EXCEPT ![poll[p].node] =
                Track(@, poll[p], onSuccess(poll[p], responseData))]

NextTracked ==
    \/ Tick
    \/ \E p \in Procs : PollStartTracked(p)
    \/ \E p \in Procs : FetchReturnTracked(p)
    \/ \E p \in Procs : FetchFail(p)

SpecTracked == InitTracked /\ [][NextTracked]_vars

\* --------------------------------------------- two trigger nodes at once
\* What the two nodes of the workflow watch.
NodesTriggerOns == {accountCreated}

\* A poll of either node; the polls of different nodes may be in flight
\* together.
InitNodes ==
    /\ InitPolls
    /\ backend \in CreatedBackends
    /\ selector = [triggerOn |-> <<>>, customObject |-> <<>>]
    /\ decoded = NotDecoded

PollStartNodes(p) ==
    \E i \in Nodes, m \in Modes, t \in NodesTriggerOns :
        /\ HostSerial(i)
        /\ FirstFree(p)
        /\ Begin(p, i, m, t, <<>>)

NextNodes ==
    \/ Tick
    \/ \E p \in Procs : PollStartNodes(p)
    \/ \E p \in Procs : FetchReturn(p)
    \/ \E p \in Procs : FetchFail(p)

SpecNodes == InitNodes /\ [][NextNodes]_vars

\* --------------------------------------------------- the action node
InitExecute ==
    /\ InitPolls
    /\ backend = {}
    /\ selector = [triggerOn |-> <<>>, customObject |-> <<>>]
    /\ decoded = NotDecoded

\* part_002:1034-1040  execute is called with its input items; resource and
\* operation are read once, for item 0.
Start(Rs, Os, Ps) ==
    /\ exec.pc = "idle"
    /\ \E n \in 0..MaxItems, c \in BOOLEAN, r \in Rs, o \in Os,
          x \in { P.externalId : P \in Ps } :
          exec' = [exec EXCEPT !.pc = "loop", !.length = n,
                               !.continueOnFail = c,
                               !.resource = r, !.operation = o,
                               !.handled = HasBranch(r, o),
                               !.externalId0 = x]
    /\ UNCHANGED <<pollVars, decodeVars, snake>>

\* What one pass of the loop leaves besides the result of the try and the
\* catch block: the item handled, its parameters, the request issued for
\* it, the value the branch assigned and the kind of the error.
Pass(e, P, request, assigned, errorName, itemIndex) ==
    [e EXCEPT !.order = Append(exec.order, exec.i),
              !.item = P,
              !.request = request,
              !.assigned = assigned,
              !.errorName = errorName,
              !.errorItemIndex = itemIndex]

\* part_002:1046-1865  one pass of the loop: the try block for item i and,
\* when it throws, the catch block. responseData is declared outside the
\* loop and keeps its value when no branch assigns it. The parameters of
\* the item are among Ps and what the request comes to among Os.
Item(Ps, Os) ==
    /\ exec.pc = "loop"
    /\ exec.i < exec.length
    /\ \E P \in Ps :
          /\ exec.i = 0 => P.externalId = exec.externalId0
          /\ LET pl == plan(exec.resource, exec.operation, P, exec.externalId0, exec.i)
             IN  \/ /\ pl.kind = "none"
                    /\ exec' = Pass(onItemSuccess(exec, exec.responseData, FALSE),
                                    P, NoRequest, exec.responseData, "", NoIndex)
                 \/ /\ pl.kind = "throw"
                    /\ exec' = Pass(onItemError(exec, pl.message, FALSE),
                                    P, NoRequest, Undefined, "NodeOperationError",
                                    pl.itemIndex)
                 \/ /\ pl.kind = "request"
                    /\ \E o \in Os :
                          exec' =
                            IF o.kind = "response"
                            THEN Pass(onItemSuccess(exec, o.responseData, TRUE),
                                      P, Issued(exec.i, pl), o.responseData, "",
                                      NoIndex)
                            ELSE Pass(onItemError(exec, o.message, o.requested),
                                      P,
                                      IF o.requested THEN Issued(exec.i, pl)
                                      ELSE NoRequest,
                                      Undefined, "NodeApiError", NoIndex)
    /\ UNCHANGED <<pollVars, decodeVars, snake>>

ExecuteStart == Start(Resources, Operations, DefaultItems)

ExecuteItem == Item(DefaultItems, ItemOutcomes)

\* part_002:1866  return [returnData]
ExecuteReturn ==
    /\ exec.pc = "loop"
    /\ exec.i >= exec.length
    /\ exec' = [exec EXCEPT !.pc = "returned",
                            !.output = [returned |-> TRUE,
                                        value |-> << exec.returnData >>]]
    /\ UNCHANGED <<pollVars, decodeVars, snake>>

NextExecute ==
    \/ ExecuteStart
    \/ ExecuteItem
    \/ ExecuteReturn

SpecExecute == InitExecute /\ [][NextExecute]_vars

\* --------------------------------------------------- create and upsert
ExecuteStartUpsert ==
    Start({"customObject", "opportunity", "account"}, {"create", "upsert"},
          UpsertItems)

ExecuteItemUpsert == Item(UpsertItems, RequestOutcomes)

NextUpsert ==
    \/ ExecuteStartUpsert
    \/ ExecuteItemUpsert
    \/ ExecuteReturn

SpecUpsert == InitExecute /\ [][NextUpsert]_vars

\* ------------------------------------------------------- attachments
ExecuteStartAttachment ==
    Start({"attachment"}, {"create", "update"}, AttachmentItems)

ExecuteItemAttachment == Item(AttachmentItems, RequestOutcomes)

NextAttachment ==
    \/ ExecuteStartAttachment
    \/ ExecuteItemAttachment
    \/ ExecuteReturn

SpecAttachment == InitExecute /\ [][NextAttachment]_vars

\* ------------------------------------- one Updated trigger, with history
InitUpdated ==
    /\ InitPolls
    /\ backend \in Backends
    /\ selector = [triggerOn |-> accountUpdated, customObject |-> <<>>]
    /\ decoded = NotDecoded

\* A trigger-mode poll of the node.
PollStartUpdated(p) ==
    \E i \in Polled :
        /\ HostSerial(i)
        /\ FirstFree(p)
        /\ Begin(p, i, "trigger", selector.triggerOn, selector.customObject)

NextUpdated ==
    \/ Tick
    \/ \E p \in Procs : PollStartUpdated(p)
    \/ \E p \in Procs : FetchReturnTracked(p)
    \/ \E p \in Procs : FetchFail(p)

SpecUpdated == InitUpdated /\ [][NextUpdated]_vars

\* ----------------------------------- triggerOn values of any spelling
\* The triggerOn strings of these runs: two options and the strings that
\* are not options.
LooseTriggerOns == {accountCreated, accountUpdated} \cup OtherTriggerOns

PollStartLoose(p) ==
    \E i \in Polled, m \in Modes, t \in LooseTriggerOns :
        /\ HostSerial(i)
        /\ FirstFree(p)
        /\ Begin(p, i, m, t, <<>>)

NextLoose ==
    \/ Tick
    \/ \E p \in Procs : PollStartLoose(p)
    \/ \E p \in Procs : FetchReturn(p)
    \/ \E p \in Procs : FetchFail(p)

SpecLoose == InitNodes /\ [][NextLoose]_vars

\* ------------------------------------- polls of one node that overlap
\* A poll of the node that starts whether or not an earlier poll of it is
\* still awaiting the paged fetch.
PollStartOverlap(p) ==
    \E i \in Polled :
        /\ FirstFree(p)
        /\ Begin(p, i, "trigger", accountCreated, <<>>)

NextOverlap ==
    \/ Tick
    \/ \E p \in Procs : PollStartOverlap(p)
    \/ \E p \in Procs : FetchReturnTracked(p)
    \/ \E p \in Procs : FetchFail(p)

SpecOverlap == InitNodes /\ [][NextOverlap]_vars

\* ------------------------------------------- a clock that is set back
\* What the node watches in the runs with a clock that jumps.
SkewTriggerOns == {accountCreated, accountUpdated}

\* DateTime.now() of the host is set to another time, earlier or later.
ClockSet ==
    /\ \E t \in Times : t # clock /\ clock' = t
    /\ UNCHANGED <<backend, lastTimeChecked, poll, settled, observed, hist>>
    /\ UNCHANGED <<decodeVars, exec, snake>>

PollStartSkew(p) ==
    \E i \in Polled, m \in Modes, t \in SkewTriggerOns :
        /\ HostSerial(i)
        /\ FirstFree(p)
        /\ Begin(p, i, m, t, <<>>)

NextSkew ==
    \/ ClockSet
    \/ \E p \in Procs : PollStartSkew(p)
    \/ \E p \in Procs : FetchReturn(p)
    \/ \E p \in Procs : FetchFail(p)

SpecSkew == InitNodes /\ [][NextSkew]_vars

\* ------------------------------------------------------------- snakeCase
InitSnake ==
    /\ InitPolls
    /\ backend = {}
    /\ selector = [triggerOn |-> <<>>, customObject |-> <<>>]
    /\ decoded = NotDecoded

\* A call of snakeCase with default options.
SnakeCase ==
    /\ ~snake.done
    /\ \E input \in Inputs :
          snake' = [done |-> TRUE, input |-> input, words |-> split(input),
                    result |-> snakeCase(input)]
    /\ UNCHANGED <<pollVars, decodeVars, exec>>

NextSnake == SnakeCase

SpecSnake == InitSnake /\ [][NextSnake]_vars

\* ------------------------------------------------- the decoding on its own
\* Values of the customObject parameter given to the decoding: the default
\* '', a custom object, and the name of a standard object.
DecodeCustomObjects == CustomObjects \cup {Account}

InitDecode ==
    /\ InitPolls
    /\ backend = {}
    /\ selector \in [triggerOn : TriggerOnOptions \cup OtherTriggerOns,
                      customObject : DecodeCustomObjects]
    /\ decoded = NotDecoded

\* router.ts:16-22  the decoding of the node's parameters.
Decode ==
    /\ ~decoded.done
    /\ decoded' =
          [done |-> TRUE,
           decodedResource |-> decodeResource(selector.triggerOn),
           triggerResource |->
              resolveResource(selector.triggerOn, selector.customObject),
           changeType |-> decodeChangeType(selector.triggerOn)]
    /\ UNCHANGED selector
    /\ UNCHANGED <<pollVars, exec, snake>>

NextDecode == Decode

SpecDecode == InitDecode /\ [][NextDecode]_vars

\* ------------------------------------------------------------- properties
\* The polls in flight.
InFlight == { p \in Procs : poll[p].pc = "fetching" }

\* The records of the output that the settled poll returned.
Batch ==
    IF settled.kind = "batch"
    THEN { settled.value[1][k].json : k \in 1..Len(settled.value[1]) }
    ELSE {}

\* C1: after every poll that returns without throwing (trigger or manual
\* mode, empty or non-empty batch) the stored checkpoint of its node equals
\* the `now` that poll captured at its start.
C1_CheckpointIsNow ==
    settled.kind \in {"null", "batch"} =>
        lastTimeChecked[settled.node] = settled.now

C1_Witness ==
    /\ settled.kind = "null"
    /\ settled.mode = "trigger"
    /\ settled.previousCheckpoint # None
    /\ settled.previousCheckpoint < settled.now
    /\ lastTimeChecked[settled.node] = settled.now

\* C2 (P4): when the fetch of a poll started with checkpoint C fails, the
\* poll throws and the checkpoint is still C; the next poll of the node
\* starts its window at C, and in trigger mode its filter's lower bounds
\* are C.
C2_FailureKeepsCheckpoint ==
    (settled.fetch = "failed" /\ settled.previousCheckpoint # None) =>
        /\ settled.kind = "throw"
        /\ lastTimeChecked[settled.node] = settled.previousCheckpoint
        /\ \A p \in InFlight :
             poll[p].node = settled.node =>
                /\ poll[p].startDate = settled.previousCheckpoint
                /\ poll[p].mode = "trigger" =>
                     poll[p].qs.conditions[1].value = settled.previousCheckpoint

C2_Witness ==
    /\ settled.fetch = "failed"
    /\ settled.mode = "trigger"
    /\ settled.previousCheckpoint # None
    /\ \E p \in InFlight :
         /\ poll[p].node = settled.node
         /\ poll[p].mode = "trigger"
         /\ poll[p].now > settled.now
         /\ poll[p].startDate = settled.previousCheckpoint

\* C3 (P5): when the fetch of a poll started without a checkpoint fails,
\* the poll throws and no checkpoint is created; the next poll of the node
\* again sees no previous checkpoint.
C3_FailureCreatesNoCheckpoint ==
    (settled.fetch = "failed" /\ settled.previousCheckpoint = None) =>
        /\ settled.kind = "throw"
        /\ lastTimeChecked[settled.node] = None
        /\ \A p \in InFlight :
             poll[p].node = settled.node =>
                /\ poll[p].previousCheckpoint = None
                /\ poll[p].startDate = poll[p].now

C3_Witness ==
    /\ settled.fetch = "failed"
    /\ settled.previousCheckpoint = None
    /\ lastTimeChecked[settled.node] = None
    /\ \E p \in InFlight :
         /\ poll[p].node = settled.node
         /\ poll[p].now > settled.now
         /\ poll[p].previousCheckpoint = None

\* C4: a failure of the query/fetch step is always rethrown, in manual and
\* in trigger mode, with and without a checkpoint: the poll returns neither
\* a batch nor null.
C4_FailureIsRethrown ==
    settled.fetch = "failed" =>
        /\ settled.kind = "throw"
        /\ settled.kind \notin {"null", "batch"}
        /\ settled.value = <<>>

C4_Witness ==
    /\ settled.fetch = "failed"
    /\ settled.mode = "trigger"
    /\ settled.previousCheckpoint # None
    /\ settled.logged
    /\ settled.kind = "throw"

\* C5 as stated (P1): every poll started without a checkpoint whose fetch
\* succeeds returns an empty batch and leaves the checkpoint at its `now`,
\* whatever the selector and the run mode.
C5_FirstPollEmpty_Original ==
    (settled.fetch = "ok" /\ settled.previousCheckpoint = None) =>
        /\ settled.kind = "null"
        /\ lastTimeChecked[settled.node] = settled.now

\* C5 amended: every trigger-mode poll started without a checkpoint whose
\* fetch succeeds queries the empty range [now, now), returns an empty
\* batch and leaves the checkpoint at its `now`, for any selector, also
\* when the org holds records.
C5_FirstTriggerPollEmpty ==
    (/\ settled.fetch = "ok"
     /\ settled.previousCheckpoint = None
     /\ settled.mode = "trigger") =>
        /\ settled.startDate = settled.now
        /\ settled.endDate = settled.now
        /\ settled.kind = "null"
        /\ Batch = {}
        /\ lastTimeChecked[settled.node] = settled.now

C5_Witness ==
    /\ settled.fetch = "ok"
    /\ settled.previousCheckpoint = None
    /\ settled.mode = "trigger"
    /\ settled.now > 1
    /\ \E r \in backend : r.sobject = settled.triggerResource
    /\ settled.kind = "null"
    /\ lastTimeChecked[settled.node] = settled.now

\* C6 (P2): each poll that returns leaves the checkpoint at its own `now`,
\* and when its `now` is later than that of the node's previous poll that
\* returned, the checkpoint observed after it is not below the one
\* observed after that previous poll.
C6_MonotonicCheckpoint ==
    [][ \A i \in Nodes :
          observed'[i] # observed[i] =>
             /\ observed'[i].checkpoint = observed'[i].now
             /\ lastTimeChecked'[i] = observed'[i].now
             /\ (observed[i].now # None /\ observed[i].now < observed'[i].now) =>
                   observed[i].checkpoint <= observed'[i].checkpoint ]_vars

C6_Witness ==
    /\ settled.fetch = "ok"
    /\ settled.previousCheckpoint # None
    /\ settled.previousCheckpoint < settled.now
    /\ observed[settled.node].now = settled.now
    /\ observed[settled.node].checkpoint = settled.now
    /\ settled.now = MaxTime

\* C7 (P3): in trigger mode, every record of the queried resource created
\* at t with start <= t < end is in the Created batch of the poll with
\* window [start, end), and no Updated batch holds a record created at or
\* after the start of its poll's window.
C7_NoDoubleCount ==
    (settled.fetch = "ok" /\ settled.mode = "trigger") =>
        /\ settled.changeType = Created =>
             \A r \in backend :
                (/\ r.sobject = settled.triggerResource
                 /\ settled.startDate <= r.CreatedDate
                 /\ r.CreatedDate < settled.endDate) => r \in Batch
        /\ settled.changeType = Updated =>
             \A r \in Batch : ~(settled.startDate <= r.CreatedDate)

C7_Witness ==
    /\ settled.fetch = "ok"
    /\ settled.mode = "trigger"
    /\ settled.changeType = Created
    /\ \E r \in Batch :
         /\ settled.startDate <= r.CreatedDate
         /\ r.CreatedDate < settled.endDate
         /\ r.LastModifiedDate > r.CreatedDate

\* C8 (P6): a manual poll sends a query without any time filter, built
\* with returnAll = false and limit 1, for Created and for Updated
\* selectors and whatever the checkpoint; when it returns, the batch holds
\* at most one record and the checkpoint is its `now`.
C8_ManualBypassesWindow ==
    /\ \A p \in InFlight :
         poll[p].mode = "manual" =>
            /\ poll[p].qs.conditions = <<>>
            /\ poll[p].qs.returnAll = FALSE
            /\ poll[p].qs.limit = 1
    /\ (settled.fetch = "ok" /\ settled.mode = "manual") =>
            /\ settled.qs.conditions = <<>>
            /\ Cardinality(Batch) <= 1
            /\ lastTimeChecked[settled.node] = settled.now

C8_Witness ==
    /\ settled.fetch = "ok"
    /\ settled.mode = "manual"
    /\ settled.changeType = Updated
    /\ settled.previousCheckpoint # None
    /\ settled.previousCheckpoint < settled.now
    /\ Cardinality(Batch) = 1
    /\ lastTimeChecked[settled.node] = settled.now

\* C9: the window is fixed before the fetch: end is the `now` captured at
\* the call, start is the stored checkpoint, or end when there is none; the
\* trigger-mode filter carries these two values, and the checkpoint written
\* on return is that `now`, also when the fetch completes later.
C9_WindowFixedAtCall ==
    /\ \A p \in InFlight :
         /\ poll[p].endDate = poll[p].now
         /\ poll[p].now <= clock
         /\ poll[p].startDate =
               (IF poll[p].previousCheckpoint # None
                THEN poll[p].previousCheckpoint ELSE poll[p].endDate)
         /\ poll[p].mode = "trigger" =>
               /\ poll[p].qs.conditions[1].value = poll[p].startDate
               /\ poll[p].qs.conditions[2].value = poll[p].endDate
    /\ settled.fetch = "ok" =>
         /\ settled.endDate = settled.now
         /\ observed[settled.node].checkpoint = settled.now

C9_Witness ==
    /\ settled.fetch = "ok"
    /\ settled.settledAt > settled.now
    /\ settled.previousCheckpoint = None
    /\ settled.startDate = settled.now
    /\ lastTimeChecked[settled.node] = settled.now

\* C10: in trigger mode with change kind Created the filter is exactly
\* CreatedDate >= start, CreatedDate < end, in that order, and the query is
\* built with returnAll = true and no limit.
C10_CreatedFilter ==
    \A p \in InFlight :
        (poll[p].mode = "trigger" /\ poll[p].changeType = Created) =>
            /\ poll[p].qs.conditions =
                  << [field |-> "CreatedDate", operation |-> ">=",
                      value |-> poll[p].startDate],
                     [field |-> "CreatedDate", operation |-> "<",
                      value |-> poll[p].endDate] >>
            /\ poll[p].qs.returnAll = TRUE
            /\ poll[p].qs.limit = 0

C10_Witness ==
    \E p \in InFlight :
        /\ poll[p].mode = "trigger"
        /\ poll[p].changeType = Created
        /\ poll[p].previousCheckpoint # None
        /\ poll[p].startDate < poll[p].endDate
        /\ Len(poll[p].qs.conditions) = 2

\* C11: in trigger mode with a change kind other than Created the filter
\* is exactly LastModifiedDate >= start, LastModifiedDate < end,
\* CreatedDate < start; for opportunityUpdated with checkpoint 1 and now 2
\* the query is for Opportunity with the bounds 1, 2, 1, and when the poll
\* returns the checkpoint is 2.
C11_UpdatedFilter ==
    /\ \A p \in InFlight :
         (poll[p].mode = "trigger" /\ poll[p].changeType = Updated) =>
            /\ poll[p].qs.conditions =
                  << [field |-> "LastModifiedDate", operation |-> ">=",
                      value |-> poll[p].startDate],
                     [field |-> "LastModifiedDate", operation |-> "<",
                      value |-> poll[p].endDate],
                     [field |-> "CreatedDate", operation |-> "<",
                      value |-> poll[p].startDate] >>
            /\ (/\ poll[p].triggerOn = opportunityUpdated
                /\ poll[p].previousCheckpoint = 1
                /\ poll[p].now = 2) =>
                  /\ poll[p].qs.sobject = Opportunity
                  /\ poll[p].qs.conditions[1].value = 1
                  /\ poll[p].qs.conditions[2].value = 2
                  /\ poll[p].qs.conditions[3].value = 1
    /\ (/\ settled.fetch = "ok"
        /\ settled.mode = "trigger"
        /\ settled.triggerOn = opportunityUpdated
        /\ settled.now = 2) => lastTimeChecked[settled.node] = 2

C11_Witness ==
    /\ settled.fetch = "ok"
    /\ settled.mode = "trigger"
    /\ settled.triggerOn = opportunityUpdated
    /\ settled.previousCheckpoint = 1
    /\ settled.now = 2
    /\ Len(settled.qs.conditions) = 3
    /\ settled.qs.sobject = Opportunity
    /\ lastTimeChecked[settled.node] = 2

\* C12: for each of the 18 triggerOn option values the change kind is the
\* last 7 characters, Created or Updated, and the resource is the rest with
\* only its first character upper-cased (opportunityUpdated gives
\* Opportunity and Updated); when that resource is exactly CustomObject the
\* resource queried is the value of the customObject parameter.
C12_SelectorDecoding ==
    (decoded.done /\ selector.triggerOn \in TriggerOnOptions) =>
        LET t      == selector.triggerOn
            n      == Len(t)
            prefix == SubSeq(t, 1, n - 7)
            res    == decoded.decodedResource
        IN  /\ decoded.changeType = SubSeq(t, n - 6, n)
            /\ decoded.changeType \in {Created, Updated}
            /\ res \in ResourceNames
            /\ Len(res) = Len(prefix)
            /\ \A k \in 2..Len(prefix) : res[k] = prefix[k]
            /\ \E j \in 1..26 : prefix[1] = LowerCase[j] /\ res[1] = UpperCase[j]
            /\ t = opportunityUpdated =>
                  res = Opportunity /\ decoded.changeType = Updated
            /\ decoded.triggerResource =
                  (IF res = CustomObject THEN selector.customObject ELSE res)

C12_Witness ==
    /\ decoded.done
    /\ selector.triggerOn = customObjectUpdated
    /\ selector.customObject = MyObject
    /\ decoded.decodedResource = CustomObject
    /\ decoded.triggerResource = MyObject
    /\ decoded.changeType = Updated

\* C13: a poll whose selector is customObjectCreated or customObjectUpdated
\* and whose custom object name is empty fails before any query is built
\* or sent: no poll awaits the fetch of a query without a resource name.
C13_EmptyCustomObjectRejected ==
    \A p \in InFlight :
        (/\ poll[p].triggerOn \in {customObjectCreated, customObjectUpdated}
         /\ poll[p].customObject = <<>>) =>
            /\ poll[p].triggerResource # <<>>
            /\ poll[p].qs.sobject # <<>>

\* C14: when a trigger-mode poll started with checkpoint C fails, the next
\* trigger-mode poll of the node with the same selector queries a window
\* from C that contains the failed one: its query selects every record the
\* failed query selected, also after several failures in a row, and when
\* it returns its batch holds them.
C14_AtLeastOnce ==
    /\ [](\A p \in InFlight :
            (/\ settled.fetch = "failed"
             /\ settled.mode = "trigger"
             /\ settled.previousCheckpoint # None
             /\ poll[p].node = settled.node
             /\ poll[p].mode = "trigger"
             /\ poll[p].triggerOn = settled.triggerOn
             /\ poll[p].customObject = settled.customObject) =>
                /\ poll[p].startDate = settled.startDate
                /\ poll[p].endDate >= settled.endDate
                /\ Matching(settled.qs, backend) \subseteq
                      Matching(poll[p].qs, backend))
    /\ [][ (/\ settled.fetch = "failed"
            /\ settled.mode = "trigger"
            /\ settled.previousCheckpoint # None
            /\ settled'.fetch = "ok"
            /\ settled'.mode = "trigger"
            /\ settled'.node = settled.node
            /\ settled'.triggerOn = settled.triggerOn
            /\ settled'.customObject = settled.customObject) =>
               Matching(settled.qs, backend) \subseteq Batch' ]_vars

C14_Witness ==
    /\ settled.fetch = "failed"
    /\ settled.mode = "trigger"
    /\ settled.previousCheckpoint # None
    /\ Matching(settled.qs, backend) # {}
    /\ \E p \in InFlight :
         /\ poll[p].node = settled.node
         /\ poll[p].mode = "trigger"
         /\ poll[p].triggerOn = settled.triggerOn
         /\ poll[p].now > settled.now
         /\ Matching(settled.qs, backend) # Matching(poll[p].qs, backend)

\* C17: when the fetch returns no record the poll returns null and no
\* output; when it returns n >= 1 records the poll returns exactly one
\* output that holds the n records in the order the fetch returned them.
C17_ResultReporting ==
    settled.fetch = "ok" =>
        LET n == Len(settled.responseData)
        IN  /\ n = 0 => settled.kind = "null" /\ settled.value = <<>>
            /\ n >= 1 =>
                 /\ settled.kind = "batch"
                 /\ Len(settled.value) = 1
                 /\ Len(settled.value[1]) = n
                 /\ \A k \in 1..n :
                       settled.value[1][k] = [json |-> settled.responseData[k]]

C17_Witness ==
    /\ settled.fetch = "ok"
    /\ Len(settled.responseData) >= 2
    /\ settled.responseData[1] # settled.responseData[2]
    /\ Len(settled.value) = 1
    /\ Len(settled.value[1]) = Len(settled.responseData)

\* C19: every failure of the query builder or the paged fetch reaches the
\* caller as a NodeApiError that names the node of the poll and carries
\* that node's selector parameters, never as the collaborator's own error.
C19_FailureIsWrapped ==
    settled.fetch = "failed" =>
        /\ settled.kind = "throw"
        /\ settled.error.name = "NodeApiError"
        /\ settled.error # CollaboratorError
        /\ settled.error.cause = CollaboratorError.name
        /\ settled.error.node = settled.node
        /\ settled.error.parameters = <<settled.triggerOn, settled.customObject>>

C19_Witness ==
    /\ settled.fetch = "failed"
    /\ settled.triggerOn = customObjectUpdated
    /\ settled.customObject = MyObject
    /\ settled.error.name = "NodeApiError"
    /\ settled.error.node = "A"

\* The resource that the node's selector stands for.
SelectedResource == resolveResource(selector.triggerOn, selector.customObject)

\* The records of the selected resource created from the first checkpoint
\* of node i up to, not including, its current checkpoint.
BelowCheckpoint(i) ==
    { r \in backend : /\ r.sobject = SelectedResource
                      /\ hist[i].first # None
                      /\ hist[i].first <= r.CreatedDate
                      /\ r.CreatedDate < lastTimeChecked[i] }

\* C15 as stated: after any sequence of polls of a Created trigger (trigger
\* and manual mode, successes and failures), every record created at or
\* after the first checkpoint ever stored and before the current one has
\* been in the batch of some earlier poll.
C15_CheckpointIsBoundary_Original ==
    \A i \in Nodes : BelowCheckpoint(i) \subseteq hist[i].reported

\* C15 amended: the same, for sequences of polls in which no manual poll
\* returned while a checkpoint was stored.
C15_CheckpointIsBoundary ==
    \A i \in Nodes :
        ~hist[i].manualAdvanced => BelowCheckpoint(i) \subseteq hist[i].reported

C15_Witness ==
    \E i \in Nodes :
        /\ ~hist[i].manualAdvanced
        /\ settled.fetch = "failed"
        /\ hist[i].first < lastTimeChecked[i]
        /\ BelowCheckpoint(i) # {}
        /\ BelowCheckpoint(i) \subseteq hist[i].reported

\* C16: with one poll of a node in flight at a time, the window of a
\* trigger-mode poll that returns starts where the window of the node's
\* previous poll that returned ended, and its batch holds no record that
\* the batch of an earlier trigger-mode poll held.
C16_WindowsDoNotOverlap ==
    [][ \A p \in Procs :
          (/\ poll[p].pc = "fetching"
           /\ poll'[p].pc = "idle"
           /\ settled'.fetch = "ok"
           /\ settled'.mode = "trigger") =>
              /\ settled'.startDate =
                    (IF observed[poll[p].node].now # None
                     THEN observed[poll[p].node].now ELSE settled'.now)
              /\ settled'.startDate <= settled'.endDate
              /\ Batch' \cap hist[poll[p].node].byTrigger = {} ]_vars

C16_Witness ==
    /\ settled.fetch = "ok"
    /\ settled.mode = "trigger"
    /\ Batch # {}
    /\ hist[settled.node].byTrigger \ Batch # {}

\* The node that a step of invocation p belongs to: the node it starts to
\* poll, or the node whose poll it finishes.
StepNode(p) == IF poll'[p].pc = "fetching" THEN poll'[p].node ELSE poll[p].node

\* C18: a poll of a node reads the checkpoint of that node only (what it
\* holds as previous checkpoint, and its window, come from the node's own
\* static data), and no step of it, start, return or failure, changes the
\* checkpoint of another node.
C18_CheckpointIsPrivate ==
    [][ \A p \in Procs :
          poll'[p] # poll[p] =>
              /\ \A j \in Nodes \ {StepNode(p)} :
                     lastTimeChecked'[j] = lastTimeChecked[j]
              /\ poll'[p].pc = "fetching" =>
                     /\ poll'[p].previousCheckpoint =
                            lastTimeChecked[poll'[p].node]
                     /\ poll'[p].startDate =
                            windowStart(lastTimeChecked[poll'[p].node], clock) ]_vars

C18_Witness ==
    /\ settled.fetch = "ok"
    /\ settled.node = "A"
    /\ settled.settledAt = clock
    /\ lastTimeChecked["B"] # None
    /\ lastTimeChecked["B"] # lastTimeChecked["A"]
    /\ \E p \in Procs : poll[p].pc = "fetching" /\ poll[p].node = "B"

\* A pass of the loop of execute in which item exec.i failed.
ItemFailed ==
    /\ exec.pc = "loop"
    /\ exec.i < exec.length
    /\ exec' # exec
    /\ exec'.outcome = "failed"

\* C20: with continueOnFail on, a failure for item i appends exactly one
\* entry {error: message} paired with item i to the entries produced so
\* far, and the loop goes on with item i + 1; with it off, the failure makes
\* execute throw that error, nothing is returned, and no request is issued
\* for a later item.
C20_ContinueOnFail ==
    /\ [][ ItemFailed =>
             IF exec.continueOnFail
             THEN /\ exec'.returnData =
                        Append(exec.returnData,
                               [json |-> [error |-> exec'.error],
                                pairedItem |-> [item |-> exec.i]])
                  /\ exec'.error \in Messages
                  /\ exec'.pc = "loop"
                  /\ exec'.i = exec.i + 1
             ELSE /\ exec'.pc = "thrown"
                  /\ exec'.thrown = exec'.error
                  /\ exec'.thrown \in Messages
                  /\ exec'.output = NoOutput ]_vars
    /\ [][ exec.pc = "thrown" => exec' = exec ]_vars
    /\ [](exec.pc = "thrown" =>
             /\ ~exec.output.returned
             /\ \A k \in exec.requests : k <= exec.i)

C20_Witness ==
    /\ exec.pc = "returned"
    /\ exec.continueOnFail
    /\ Len(exec.returnData) = 3
    /\ exec.returnData[1].json = Created201
    /\ exec.returnData[2] = [json |-> [error |-> "Bad Request"],
                             pairedItem |-> [item |-> 1]]
    /\ exec.returnData[3].pairedItem = [item |-> 2]
    /\ exec.output.value = << exec.returnData >>

IsAlnum(ch) == IsLetter(ch) \/ IsDigit(ch)

\* Whether a word ends after character k of s: before a character that is
\* neither letter nor digit, between a lowercase letter or digit and an
\* uppercase letter, between an uppercase letter and an uppercase letter
\* that a lowercase letter follows, and at the end of s.
WordEndsAt(s, k) ==
    \/ k = Len(s)
    \/ ~IsAlnum(s[k + 1])
    \/ (IsLower(s[k]) \/ IsDigit(s[k])) /\ IsUpper(s[k + 1])
    \/ /\ IsUpper(s[k]) /\ IsUpper(s[k + 1])
       /\ k + 2 <= Len(s) /\ IsLower(s[k + 2])

\* The words of s from character k on, word being the part of the current
\* word before k.
RECURSIVE WordsFrom(_, _, _)
WordsFrom(s, k, word) ==
    IF k > Len(s) THEN <<>>
    ELSE IF ~IsAlnum(s[k]) THEN WordsFrom(s, k + 1, <<>>)
         ELSE IF WordEndsAt(s, k)
              THEN << Append(word, s[k]) >> \o WordsFrom(s, k + 1, <<>>)
              ELSE WordsFrom(s, k + 1, Append(word, s[k]))

\* C21: split(input) is the list of the words of the input (cut between a
\* lowercase letter or digit and an uppercase letter, between an uppercase
\* letter and a following uppercase-lowercase pair, and at every run of
\* other characters), no word is empty, the list is empty when the input
\* has no letter or digit, and snakeCase(input) is these words lower-cased
\* and joined by one `_`, so it neither starts nor ends with `_` nor
\* contains `__`.
C21_SnakeCaseWords ==
    snake.done =>
        /\ snake.words = WordsFrom(snake.input, 1, <<>>)
        /\ \A k \in 1..Len(snake.words) : snake.words[k] # <<>>
        /\ (snake.words = <<>>) <=>
               (\A k \in 1..Len(snake.input) : ~IsAlnum(snake.input[k]))
        /\ snake.result =
               join([k \in 1..Len(snake.words) |-> toLowerCase(snake.words[k])],
                    << "_" >>)
        /\ snake.result # <<>> =>
               /\ snake.result[1] # "_"
               /\ snake.result[Len(snake.result)] # "_"
        /\ \A k \in 1..(Len(snake.result) - 1) :
               ~(snake.result[k] = "_" /\ snake.result[k + 1] = "_")
        /\ \A k \in 1..Len(snake.result) : ~IsUpper(snake.result[k])

C21_Witness ==
    /\ snake.done
    /\ snake.input = << "a", "B", "B", "a" >>
    /\ snake.result = << "a", "_", "b", "_", "b", "a" >>

\* Invocation p's poll returns in this step.
Returns(p) ==
    /\ poll[p].pc = "fetching"
    /\ poll'[p].pc = "idle"
    /\ settled'.fetch = "ok"

\* C24 as stated: when polls of one node overlap, a poll that returns
\* leaves the checkpoint at the larger of the stored checkpoint and its own
\* `now`, and the checkpoint never moves backwards.
C24_OverlapKeepsLarger_Original ==
    [][ \A p \in Procs :
          Returns(p) =>
              /\ lastTimeChecked'[poll[p].node] =
                     Max(lastTimeChecked[poll[p].node], poll[p].now)
              /\ lastTimeChecked'[poll[p].node] >=
                     lastTimeChecked[poll[p].node] ]_vars

\* C24 amended: when polls of one node overlap, the checkpoint after a poll
\* returns is the `now` of that poll, the one that completed last, whatever
\* was stored; a poll that fails leaves the checkpoint as it is.
C24_OverlapLastWriterWins ==
    [][ \A p \in Procs :
          (poll[p].pc = "fetching" /\ poll'[p].pc = "idle") =>
              lastTimeChecked'[poll[p].node] =
                  (IF settled'.fetch = "ok" THEN poll[p].now
                   ELSE lastTimeChecked[poll[p].node]) ]_vars

\* Two polls overlapped and the one that started first returned last: the
\* checkpoint is below the first one that was stored.
C24_Witness ==
    /\ settled.fetch = "ok"
    /\ settled.previousCheckpoint = None
    /\ hist[settled.node].first # None
    /\ lastTimeChecked[settled.node] = settled.now
    /\ lastTimeChecked[settled.node] < hist[settled.node].first

\* C25: a trigger-mode poll that starts when the clock is behind the stored
\* checkpoint sends the window with start > end (start the checkpoint, end
\* its `now`), and a poll that returns writes its `now` as checkpoint
\* without comparing, so the checkpoint afterwards is the earlier value.
C25_NoClockCompensation ==
    /\ [][ \A p \in Procs :
             (/\ poll[p].pc = "idle"
              /\ poll'[p].pc = "fetching"
              /\ poll'[p].mode = "trigger"
              /\ lastTimeChecked[poll'[p].node] # None
              /\ clock < lastTimeChecked[poll'[p].node]) =>
                 /\ poll'[p].startDate = lastTimeChecked[poll'[p].node]
                 /\ poll'[p].endDate = clock
                 /\ poll'[p].startDate > poll'[p].endDate
                 /\ poll'[p].qs.conditions[1].value = poll'[p].startDate
                 /\ poll'[p].qs.conditions[2].value = poll'[p].endDate ]_vars
    /\ [][ \A p \in Procs :
             Returns(p) => lastTimeChecked'[poll[p].node] = settled'.now ]_vars

C25_Witness ==
    /\ settled.fetch = "ok"
    /\ settled.mode = "trigger"
    /\ settled.previousCheckpoint # None
    /\ settled.startDate > settled.endDate
    /\ settled.qs.conditions[1].value > settled.qs.conditions[2].value
    /\ lastTimeChecked[settled.node] = settled.now
    /\ lastTimeChecked[settled.node] < settled.previousCheckpoint

\* The last 7 characters of t are `Created`.
EndsInCreated(t) == Len(t) >= 7 /\ SubSeq(t, Len(t) - 6, Len(t)) = Created

\* C26: whatever the triggerOn string, a trigger-mode poll gets past the
\* decoding and awaits the fetch with the two-condition Created filter
\* exactly when the last 7 characters of triggerOn are `Created`, and with
\* the three-condition Updated filter for every other string.
C26_ChangeKindNotValidated ==
    \A p \in InFlight :
        poll[p].mode = "trigger" =>
            poll[p].qs.conditions =
                (IF EndsInCreated(poll[p].triggerOn)
                 THEN << [field |-> "CreatedDate", operation |-> ">=",
                          value |-> poll[p].startDate],
                         [field |-> "CreatedDate", operation |-> "<",
                          value |-> poll[p].endDate] >>
                 ELSE << [field |-> "LastModifiedDate", operation |-> ">=",
                          value |-> poll[p].startDate],
                         [field |-> "LastModifiedDate", operation |-> "<",
                          value |-> poll[p].endDate],
                         [field |-> "CreatedDate", operation |-> "<",
                          value |-> poll[p].startDate] >>)

C26_Witness ==
    \E p \in InFlight :
        /\ poll[p].mode = "trigger"
        /\ poll[p].triggerOn = lead
        /\ Len(poll[p].qs.conditions) = 3
        /\ settled.triggerOn = Created
        /\ Len(settled.qs.conditions) = 2

\* The records of the resource of the poll that finished in this step.
Polled_Records == { r \in backend : r.sobject = settled'.triggerResource }

\* C27: when a trigger-mode poll of an Updated trigger returns, its batch
\* holds every record modified inside its window [start, end) and created
\* before start, and so every record that was created inside the window of
\* an earlier trigger-mode poll and modified inside this window.
C27_UpdatedAfterCreation ==
    [][ \A p \in Procs :
          (Returns(p) /\ poll[p].mode = "trigger" /\ poll[p].changeType = Updated) =>
              \A r \in Polled_Records :
                  (/\ poll[p].startDate <= r.LastModifiedDate
                   /\ r.LastModifiedDate < poll[p].endDate) =>
                      /\ r.CreatedDate < poll[p].startDate => r \in Batch'
                      /\ \A w \in hist[poll[p].node].windows :
                             (w.start <= r.CreatedDate /\ r.CreatedDate < w.end)
                                 => r \in Batch' ]_vars

C27_Witness ==
    /\ settled.fetch = "ok"
    /\ settled.mode = "trigger"
    /\ settled.changeType = Updated
    /\ \E r \in Batch, w \in hist[settled.node].windows :
          /\ w.end <= settled.startDate
          /\ w.start <= r.CreatedDate /\ r.CreatedDate < w.end
          /\ settled.startDate <= r.LastModifiedDate
          /\ r.LastModifiedDate < settled.endDate

\* A pass of the loop of execute happens in this step.
Passes == exec.pc = "loop" /\ exec.i < exec.length /\ exec' # exec

\* The entries that the pass of this step adds to returnData.
Added == SubSeq(exec'.returnData, Len(exec.returnData) + 1, Len(exec'.returnData))

\* The Salesforce default response, as an output entry for item i.
DefaultEntry(i) ==
    [json |-> [errors |-> <<>>, success |-> TRUE], pairedItem |-> [item |-> i]]

\* C22: execute handles the items one at a time in the order 0..n-1: the
\* items handled so far are 0, 1, 2, ... each once, a request is issued
\* only for the item being handled, the entries a pass adds are paired with
\* its item and come after those of the earlier items, and when execute
\* returns it has made n passes.
C22_ItemsInOrder ==
    /\ [](/\ \A k \in 1..Len(exec.order) : exec.order[k] = k - 1
          /\ Len(exec.order) = (IF exec.pc = "thrown" THEN exec.i + 1 ELSE exec.i)
          /\ Len(exec.order) <= exec.length
          /\ exec.requests \subseteq { exec.order[k] : k \in 1..Len(exec.order) }
          /\ \A k \in 1..Len(exec.returnData) :
                 /\ exec.returnData[k].pairedItem.item < Len(exec.order)
                 /\ k > 1 => exec.returnData[k - 1].pairedItem.item
                                 <= exec.returnData[k].pairedItem.item
          /\ exec.pc = "returned" =>
                 /\ Len(exec.order) = exec.length
                 /\ exec.output.value = << exec.returnData >>)
    /\ [][ Passes =>
             /\ exec'.order = Append(exec.order, exec.i)
             /\ exec'.requests \ exec.requests \subseteq {exec.i}
             /\ exec'.request.issued => exec'.request.item = exec.i
             /\ SubSeq(exec'.returnData, 1, Len(exec.returnData)) = exec.returnData
             /\ \A k \in 1..Len(Added) : Added[k].pairedItem = [item |-> exec.i] ]_vars

C22_Witness ==
    /\ exec.pc = "returned"
    /\ exec.length = 3
    /\ exec.order = << 0, 1, 2 >>
    /\ exec.requests = {0, 1, 2}
    /\ Len(exec.returnData) = 4
    /\ exec.returnData[1].pairedItem = [item |-> 0]
    /\ exec.returnData[2].pairedItem = [item |-> 1]
    /\ exec.returnData[3].pairedItem = [item |-> 1]
    /\ exec.returnData[4].pairedItem = [item |-> 2]

\* C23: when the try block of item i ends with responseData undefined, the
\* output for item i is the one entry {errors: [], success: true}; a
\* response that is an object gives one entry with that object and a
\* response that is a list gives one entry per element, none for an empty
\* list.
C23_DefaultResponse ==
    [][ (Passes /\ exec'.outcome = "ok") =>
            IF exec'.assigned.kind = "undefined"
            THEN Added = << DefaultEntry(exec.i) >>
            ELSE IF exec'.assigned.kind = "object"
                 THEN Added = << [json |-> exec'.assigned.value[1],
                                  pairedItem |-> [item |-> exec.i]] >>
                 ELSE /\ Len(Added) = Len(exec'.assigned.value)
                      /\ \A k \in 1..Len(Added) :
                             Added[k] = [json |-> exec'.assigned.value[k],
                                         pairedItem |-> [item |-> exec.i]] ]_vars

C23_Witness ==
    /\ exec.pc = "returned"
    /\ exec.resource = "customObject"
    /\ exec.operation = "delete"
    /\ exec.length = 2
    /\ exec.request.issued
    /\ exec.request.method = "DELETE"
    /\ exec.assigned = [kind |-> "array", value |-> <<>>]
    /\ exec.returnData = << DefaultEntry(0) >>

\* C28: create sends POST /sobjects/<object> with the required fields and
\* the custom fields; upsert sends PATCH
\* /sobjects/<object>/<externalId>/<externalIdValue> with the externalId of
\* item 0 and the externalIdValue of the item, and the body on the wire has
\* no key equal to that externalId.
C28_CreateVersusUpsert ==
    (exec.request.issued /\ exec.operation \in {"create", "upsert"}
        /\ exec.resource \in {"customObject", "opportunity", "account"}) =>
        LET object == IF exec.resource = "customObject" THEN CustomObjectName
                      ELSE exec.resource
            req    == exec.request
        IN  IF exec.operation = "create"
            THEN /\ req.method = "POST"
                 /\ req.endpoint = << "sobjects", object >>
                 /\ \A k \in DOMAIN exec.item.customFields :
                        k \in DOMAIN req.body /\ req.body[k] = exec.item.customFields[k]
                 /\ exec.resource = "opportunity" =>
                        {"Name", "CloseDate", "StageName"} \subseteq DOMAIN req.body
                 /\ exec.resource = "account" => "Name" \in DOMAIN req.body
            ELSE /\ req.method = "PATCH"
                 /\ req.endpoint = << "sobjects", object, exec.externalId0,
                                      exec.item.externalIdValue >>
                 /\ exec.externalId0 \notin DOMAIN req.sent
                 /\ \A k \in DOMAIN req.sent :
                        k \in DOMAIN exec.item.customFields =>
                            req.sent[k] = exec.item.customFields[k]

C28_Witness ==
    /\ exec.request.issued
    /\ exec.operation = "upsert"
    /\ exec.resource = "account"
    /\ exec.request.item = 1
    /\ exec.externalId0 = "Ext__c"
    /\ exec.item.externalId = "Name"
    /\ exec.item.externalIdValue = "x2"
    /\ exec.item.customFields = Put(Put(EmptyBody, "Ext__c", "v"), "Name", "w")
    /\ exec.request.endpoint = << "sobjects", "account", "Ext__c", "x2" >>
    /\ DOMAIN exec.request.sent = {"Name"}

\* C29: for case, contact, document, flow, task and lead, the resources of
\* the list without a branch, execute issues no request and its output is
\* one entry {errors: [], success: true} per item handled; a request is
\* issued only for customObject, opportunity, account, attachment, user and
\* search.
C29_UnhandledResources ==
    /\ { r \in Resources : Branches(r) = {} } =
           {"case", "contact", "document", "flow", "task", "lead"}
    /\ (exec.pc # "idle" /\ exec.resource \in
            {"case", "contact", "document", "flow", "task", "lead"}) =>
           /\ exec.requests = {}
           /\ ~exec.request.issued
           /\ exec.pc # "thrown"
           /\ exec.returnData = [k \in 1..exec.i |-> DefaultEntry(k - 1)]
    /\ (exec.requests # {} \/ exec.request.issued) =>
           exec.resource \in {"customObject", "opportunity", "account",
                              "attachment", "user", "search"}

C29_Witness ==
    /\ exec.pc = "returned"
    /\ exec.resource = "lead"
    /\ exec.operation = "create"
    /\ exec.length = 3
    /\ exec.requests = {}
    /\ exec.returnData = << DefaultEntry(0), DefaultEntry(1), DefaultEntry(2) >>

\* The item handled last is one whose binary data the attachment branch
\* reads: every item of a create, and the items of an update whose update
\* fields name a binary property.
ReadsBinary ==
    /\ exec.order # <<>>
    /\ exec.resource = "attachment"
    /\ \/ exec.operation = "create"
       \/ exec.operation = "update" /\ exec.item.updateBinary

\* C30: when the item handled by attachment create, or by attachment update
\* with a binaryPropertyName, has no binary data under that name, its
\* handling fails with a NodeOperationError with the item's index and the
\* message `The property data does not exist` and no request is issued for
\* it; when it has, a request issued for it carries the data as Body and
\* the mimeType as ContentType.
C30_AttachmentBinary ==
    ReadsBinary =>
        LET i == exec.order[Len(exec.order)]
        IN  IF ~exec.item.hasBinary
            THEN /\ exec.outcome = "failed"
                 /\ exec.errorName = "NodeOperationError"
                 /\ exec.errorItemIndex = i
                 /\ exec.error = "The property data does not exist"
                 /\ ~exec.request.issued
                 /\ i \notin exec.requests
            ELSE /\ exec.errorName # "NodeOperationError"
                 /\ exec.request.issued =>
                        /\ exec.request.item = i
                        /\ exec.request.sent["Body"] = BinaryData.data
                        /\ exec.request.sent["ContentType"] = BinaryData.mimeType

C30_Witness ==
    /\ ReadsBinary
    /\ exec.operation = "create"
    /\ exec.continueOnFail
    /\ exec.order = << 0, 1 >>
    /\ 0 \in exec.requests
    /\ ~exec.item.hasBinary
    /\ exec.returnData[Len(exec.returnData)] =
           [json |-> [error |-> "The property data does not exist"],
            pairedItem |-> [item |-> 1]]

====
